---- MODULE Spec2Model ----
(***************************************************************************)
(* ArachnadoCrawlerProcess (arachnado/crawler_process.py): the job ids it  *)
(* hands out, its registry of crawlers, the set of paused job ids, the     *)
(* list of finished jobs and the job list it reports.                      *)
(*                                                                         *)
(* A crawler is named by the crawl_id passed to its spider.  The Scrapy    *)
(* classes the process extends are outside the repository; the steps they  *)
(* take inside crawl(), stop() and on the closing of a spider are modelled *)
(* at the calls the source makes to them.                                  *)
(***************************************************************************)
EXTENDS Integers, Sequences, FiniteSets

\* Number of crawl() calls explored.
MaxJobs == 2
\* Number of deliveries of the spider_closed signal explored, repeated
\* deliveries for one spider included.
MaxFinished == 2

\* Ids the crawl counter can hand out within the bound.
JobIds == 1..MaxJobs
\* Ids a caller passes to stop_job / pause_job / resume_job / get_crawler;
\* an id is unknown to the process until crawl hands it out.
CallIds == JobIds

\* Outcomes of get_crawler.
Found == "found"
KeyErrorJobNotKnown == "KeyError: Job is not known"
AttributeError == "AttributeError: 'NoneType' object has no attribute 'crawl_id'"
\* Outcome of set.remove on a missing element.
KeyErrorRemove == "KeyError: set.remove"
Ok == "ok"

\* The way the spec names the two KeyErrors.
NotFound == KeyErrorJobNotKnown
NotPaused == KeyErrorRemove

VARIABLES
    crawl_ids,       \* next value of the class-level itertools.count
    pending,         \* crawl_ids taken by crawl() calls that have not registered yet
    issued,          \* the ids handed out, in allocation order
    crawlers,        \* self.crawlers: the crawlers registered with the process
    spider,          \* spider[c]: crawler c's spider is not None
    crawling,        \* crawling[c]: crawler c's crawling flag
    closing,         \* closing[c]: the engine slot of c is closing
    reason,          \* reason[c]: the reason c's spider is closed with
    closed,          \* closed[c]: spider_closed has been sent for c
    _paused_jobs,    \* self._paused_jobs
    _finished_jobs,  \* self._finished_jobs, newest first
    last,            \* the call of the job API made in the last step, and how it ended
    connected,       \* the registered crawlers whose signals _resend_signal is connected to
    closing_sent,    \* closing_sent[c]: how often c's engine has sent spider_closing
    sent             \* the signal a crawler sent in the last step, and what became of it

vars == <<crawl_ids, pending, issued, crawlers, spider, crawling, closing,
          reason, closed, _paused_jobs, _finished_jobs, last, connected,
          closing_sent, sent>>

NoCall ==
    [op |-> "none", id |-> 0, err |-> Ok, engine |-> "none", pre |-> {},
     heard |-> {}]

\* What is kept of a call: the method, its argument, how it ended, the
\* engine method it reached, self._paused_jobs as the call found it, and
\* self._paused_jobs as the listeners of the process-wide signal found it
\* when the engine sent engine_paused or engine_resumed (none: no listener
\* was reached).
call(op, crawl_id, err, engine) ==
    [op |-> op, id |-> crawl_id, err |-> err, engine |-> engine,
     pre |-> _paused_jobs, heard |-> {}]

\* No signal was sent in the last step.
NoSignal ==
    [signal |-> "none", sender |-> [kind |-> "none", crawler |-> 0],
     payload |-> "none", raising |-> {}, out |-> <<>>]

Init ==
    /\ crawl_ids = 1
    /\ pending = {}
    /\ issued = <<>>
    /\ crawlers = {}
    /\ spider = [c \in JobIds |-> FALSE]
    /\ crawling = [c \in JobIds |-> FALSE]
    /\ closing = [c \in JobIds |-> FALSE]
    /\ reason = [c \in JobIds |-> "none"]
    /\ closed = [c \in JobIds |-> FALSE]
    /\ _paused_jobs = {}
    /\ _finished_jobs = <<>>
    /\ last = NoCall
    /\ connected = {}
    /\ closing_sent = [c \in JobIds |-> 0]
    /\ sent = NoSignal

(***************************************************************************)
(* crawl                                                                   *)
(***************************************************************************)

\* A counter that hands out the same value again.
count_stuck(n) == n

\* next(self.crawl_ids): the counter after handing out value n.
count_next(n) == n + 1

\* crawl, line 139: kwargs['crawl_id'] = next(self.crawl_ids).  The call is
\* one step of its own so that several crawl() calls can be in flight.
crawl_next_id ==
    /\ crawl_ids <= MaxJobs
    /\ pending' = pending \cup {crawl_ids}
    /\ issued' = Append(issued, crawl_ids)
    /\ crawl_ids' = count_next(crawl_ids)
    /\ UNCHANGED <<crawlers, spider, crawling, closing, reason, closed,
                   _paused_jobs, _finished_jobs>>
    /\ last' = NoCall
    /\ UNCHANGED <<connected, closing_sent>>
    /\ sent' = NoSignal

\* What crawl can be given as crawler_or_spidercls, line 142: a Crawler, or
\* a spider class (or its name) to make a crawler of.
CrawlArgs == {"Crawler", "spidercls"}

\* The crawler lines 146-151 connect _resend_signal to is the crawler
\* CrawlerRunner.crawl registers and runs.  crawl connects the signals of
\* `crawler` and hands crawler_or_spidercls to CrawlerRunner.crawl (line
\* 153): given a Crawler the two are the same object; given a spider class,
\* `crawler` is the one line 143 made, and CrawlerRunner.crawl makes
\* another one through _create_crawler, which it registers and runs.
runs_connected_crawler(arg) == arg = "Crawler"

\* crawl, lines 141-153, up to the point where CrawlerRunner.crawl has added
\* the crawler to self.crawlers and Crawler.crawl has set crawling: the
\* crawler is registered and its spider is still None, the state get_jobs
\* (line 220) and _get_crawler_status (line 233) test for.
crawl_register(c) ==
    /\ c \in pending
    /\ pending' = pending \ {c}
    /\ crawlers' = crawlers \cup {c}
    /\ crawling' = [crawling EXCEPT ![c] = TRUE]
    /\ \E arg \in CrawlArgs :
          connected' = IF runs_connected_crawler(arg)
                       THEN connected \cup {c}
                       ELSE connected
    /\ UNCHANGED closing_sent
    /\ sent' = NoSignal
    /\ UNCHANGED <<crawl_ids, issued, spider, closing, reason, closed,
                   _paused_jobs, _finished_jobs>>
    /\ last' = NoCall

\* Crawler.crawl creates the spider with the crawl_id keyword and the engine.
create_spider(c) ==
    /\ c \in crawlers
    /\ ~spider[c]
    /\ spider' = [spider EXCEPT ![c] = TRUE]
    /\ UNCHANGED <<crawl_ids, pending, issued, crawlers, crawling, closing,
                   reason, closed, _paused_jobs, _finished_jobs>>
    /\ last' = NoCall
    /\ UNCHANGED <<connected, closing_sent>>
    /\ sent' = NoSignal

(***************************************************************************)
(* get_crawler                                                             *)
(***************************************************************************)

\* The ways get_crawler(crawl_id) can end.  self.crawlers is a set, so the
\* loop meets the crawlers in no particular order: it returns at a crawler
\* whose spider has the id, and getattr(None, "crawl_id") raises
\* AttributeError at a crawler without a spider; the KeyError is raised
\* when the loop ends.
get_crawler(crawl_id) ==
    LET match == {c \in crawlers : spider[c] /\ c = crawl_id}
        nospider == {c \in crawlers : ~spider[c]}
    IN  (IF match # {} THEN {Found} ELSE {})
        \cup (IF nospider # {} THEN {AttributeError} ELSE {})
        \cup (IF match = {} /\ nospider = {} THEN {KeyErrorJobNotKnown} ELSE {})

\* A direct call of get_crawler.
lookup(crawl_id) ==
    /\ \E out \in get_crawler(crawl_id) :
          last' = call("get_crawler", crawl_id, IF out = Found THEN Ok ELSE out, "none")
    /\ UNCHANGED <<crawl_ids, pending, issued, crawlers, spider, crawling,
                   closing, reason, closed, _paused_jobs, _finished_jobs>>
    /\ UNCHANGED <<connected, closing_sent>>
    /\ sent' = NoSignal

(***************************************************************************)
(* the engine                                                              *)
(***************************************************************************)

\* close_spider without the test of slot.closing.
close_spider_unguarded(c, r) ==
    /\ crawling' = [crawling EXCEPT ![c] = FALSE]
    /\ closing' = [closing EXCEPT ![c] = TRUE]
    /\ reason' = [reason EXCEPT ![c] = r]
    /\ closing_sent' = [closing_sent EXCEPT ![c] = @ + 1]

\* ArachnadoExecutionEngine.close_spider(spider, reason), lines 90-95.
close_spider(c, r) ==
    IF closing[c]
    THEN UNCHANGED <<crawling, closing, reason, closing_sent>>
    ELSE /\ crawling' = [crawling EXCEPT ![c] = FALSE]
         /\ closing' = [closing EXCEPT ![c] = TRUE]
         /\ reason' = [reason EXCEPT ![c] = r]
         /\ closing_sent' = [closing_sent EXCEPT ![c] = @ + 1]

\* The engine is asked to close its spider other than through stop_job: the
\* spider ran out of work, a callback raised CloseSpider, an extension
\* closed it.  The requests can come more than once, also while the spider
\* is closing, until the spider is closed.
engine_close_spider(c) ==
    /\ c \in crawlers
    /\ spider[c]
    /\ ~closed[c]
    /\ close_spider(c, "finished")
    /\ UNCHANGED <<crawl_ids, pending, issued, crawlers, spider, closed,
                   _paused_jobs, _finished_jobs>>
    /\ last' = NoCall
    /\ UNCHANGED connected
    /\ sent' = NoSignal

(***************************************************************************)
(* stop_job, pause_job, resume_job                                         *)
(***************************************************************************)

\* stop_job, lines 161-163.  Crawler.stop clears the crawling flag and
\* stops the engine, which closes the spider with reason 'shutdown'; it does
\* nothing when the flag is already clear.
stop_job(crawl_id) ==
    /\ \E out \in get_crawler(crawl_id) :
          IF out = Found
          THEN /\ IF crawling[crawl_id]
                  THEN IF closing[crawl_id]
                       THEN /\ crawling' = [crawling EXCEPT ![crawl_id] = FALSE]
                            /\ UNCHANGED <<closing, reason, closing_sent>>
                       ELSE close_spider(crawl_id, "shutdown")
                  ELSE UNCHANGED <<crawling, closing, reason, closing_sent>>
               /\ last' = call("stop_job", crawl_id, Ok, IF crawling[crawl_id] THEN "stop" ELSE "none")
          ELSE /\ UNCHANGED <<crawling, closing, reason, closing_sent>>
               /\ last' = call("stop_job", crawl_id, out, "none")
    /\ UNCHANGED <<crawl_ids, pending, issued, crawlers, spider, closed,
                   _paused_jobs, _finished_jobs>>
    /\ UNCHANGED connected
    /\ sent' = NoSignal

\* What the listeners of a process-wide signal find in self._paused_jobs
\* when the engine of crawler c sends the signal while the set is
\* paused_now: send_catch_log runs _resend_signal, and that runs the
\* listeners (lines 193-197), before the engine's method returns; a crawler
\* _resend_signal is not connected to reaches no listener.
hears(c, paused_now) == IF c \in connected THEN {paused_now} ELSE {}

\* pause_job that tells the engine to pause before it adds the id.
pause_job_engine_first(crawl_id) ==
    /\ _paused_jobs' = _paused_jobs \cup {crawl_id}
    /\ \E out \in get_crawler(crawl_id) :
          IF out = Found
          THEN last' = [call("pause_job", crawl_id, Ok, "pause")
                           EXCEPT !.heard = hears(crawl_id, _paused_jobs)]
          ELSE last' = call("pause_job", crawl_id, out, "none")
    /\ UNCHANGED <<crawl_ids, pending, issued, crawlers, spider, crawling,
                   closing, reason, closed, _finished_jobs>>
    /\ UNCHANGED <<connected, closing_sent>>
    /\ sent' = NoSignal

\* pause_job, lines 165-168; the engine's pause, lines 97-100: the id is
\* added (line 167), then the engine is looked up and paused (line 168),
\* and the engine sends engine_paused as it pauses (line 100).
pause_job(crawl_id) ==
    /\ _paused_jobs' = _paused_jobs \cup {crawl_id}
    /\ \E out \in get_crawler(crawl_id) :
          IF out = Found
          THEN last' = [call("pause_job", crawl_id, Ok, "pause")
                           EXCEPT !.heard = hears(crawl_id, _paused_jobs')]
          ELSE last' = call("pause_job", crawl_id, out, "none")
    /\ UNCHANGED <<crawl_ids, pending, issued, crawlers, spider, crawling,
                   closing, reason, closed, _finished_jobs>>
    /\ UNCHANGED <<connected, closing_sent>>
    /\ sent' = NoSignal

\* resume_job with set.discard in place of set.remove: a missing id is let
\* through.
resume_job_discard(crawl_id) ==
    /\ _paused_jobs' = _paused_jobs \ {crawl_id}
    /\ \E out \in get_crawler(crawl_id) :
          IF out = Found
          THEN last' = call("resume_job", crawl_id, Ok, "unpause")
          ELSE last' = call("resume_job", crawl_id, out, "none")
    /\ UNCHANGED <<crawl_ids, pending, issued, crawlers, spider, crawling,
                   closing, reason, closed, _finished_jobs>>
    /\ UNCHANGED <<connected, closing_sent>>
    /\ sent' = NoSignal

\* resume_job that unpauses the engine and leaves the id in the set.
resume_job_keep(crawl_id) ==
    /\ IF crawl_id \notin _paused_jobs
       THEN last' = call("resume_job", crawl_id, KeyErrorRemove, "none")
       ELSE \E out \in get_crawler(crawl_id) :
               IF out = Found
               THEN last' = call("resume_job", crawl_id, Ok, "unpause")
               ELSE last' = call("resume_job", crawl_id, out, "none")
    /\ UNCHANGED <<crawl_ids, pending, issued, crawlers, spider, crawling,
                   closing, reason, closed, _paused_jobs,
                   _finished_jobs>>
    /\ UNCHANGED <<connected, closing_sent>>
    /\ sent' = NoSignal

\* resume_job, lines 170-173; the engine's unpause, lines 102-105: the id
\* is removed (line 172), then the engine is looked up and unpaused (line
\* 173), and the engine sends engine_resumed as it unpauses (line 105).
resume_job(crawl_id) ==
    /\ IF crawl_id \notin _paused_jobs
       THEN /\ last' = call("resume_job", crawl_id, KeyErrorRemove, "none")
            /\ UNCHANGED _paused_jobs
       ELSE /\ _paused_jobs' = _paused_jobs \ {crawl_id}
            /\ \E out \in get_crawler(crawl_id) :
                  IF out = Found
                  THEN last' = [call("resume_job", crawl_id, Ok, "unpause")
                                   EXCEPT !.heard = hears(crawl_id, _paused_jobs')]
                  ELSE last' = call("resume_job", crawl_id, out, "none")
    /\ UNCHANGED <<crawl_ids, pending, issued, crawlers, spider, crawling,
                   closing, reason, closed, _finished_jobs>>
    /\ UNCHANGED <<connected, closing_sent>>
    /\ sent' = NoSignal

(***************************************************************************)
(* the end of a job                                                        *)
(***************************************************************************)

\* The record on_spider_closed builds for a spider, lines 206-212.
finished_record(c, r) == [id |-> c, status |-> r]

\* on_spider_closed that puts the record at the end of the list.
on_spider_closed_append(c) ==
    /\ c \in connected
    /\ spider[c]
    /\ closing[c]
    /\ Len(_finished_jobs) < MaxFinished
    /\ closed' = [closed EXCEPT ![c] = TRUE]
    /\ _finished_jobs' = Append(_finished_jobs, finished_record(c, reason[c]))
    /\ UNCHANGED <<crawl_ids, pending, issued, crawlers, spider, crawling,
                   closing, reason, _paused_jobs>>
    /\ last' = NoCall
    /\ UNCHANGED <<connected, closing_sent>>
    /\ sent' = NoSignal

\* on_spider_closed, lines 204-212: the handler of the process-wide
\* spider_closed signal, run at each delivery of the signal for c, the
\* first as well as a repeated one.  The signal of a crawler _resend_signal
\* is not connected to is not delivered.
on_spider_closed(c) ==
    /\ c \in connected
    /\ spider[c]
    /\ closing[c]
    /\ Len(_finished_jobs) < MaxFinished
    /\ closed' = [closed EXCEPT ![c] = TRUE]
    /\ _finished_jobs' = <<finished_record(c, reason[c])>> \o _finished_jobs
    /\ UNCHANGED <<crawl_ids, pending, issued, crawlers, spider, crawling,
                   closing, reason, _paused_jobs>>
    /\ last' = NoCall
    /\ UNCHANGED <<connected, closing_sent>>
    /\ sent' = NoSignal

\* The engine sends spider_closed on a crawler _resend_signal is not
\* connected to: the signal stays with the crawler and on_spider_closed is
\* not run.
spider_closed_unheard(c) ==
    /\ c \in crawlers
    /\ c \notin connected
    /\ spider[c]
    /\ closing[c]
    /\ ~closed[c]
    /\ closed' = [closed EXCEPT ![c] = TRUE]
    /\ UNCHANGED <<crawl_ids, pending, issued, crawlers, spider, crawling,
                   closing, reason, _paused_jobs, _finished_jobs, connected,
                   closing_sent>>
    /\ last' = NoCall
    /\ sent' = NoSignal

\* The deferred of crawl() fires once the engine has stopped, and
\* CrawlerRunner discards the crawler from self.crawlers.
crawl_done(c) ==
    /\ c \in crawlers
    /\ closed[c]
    /\ crawlers' = crawlers \ {c}
    /\ connected' = connected \ {c}
    /\ UNCHANGED <<crawl_ids, pending, issued, spider, crawling, closing,
                   reason, closed, _paused_jobs, _finished_jobs>>
    /\ last' = NoCall
    /\ UNCHANGED closing_sent
    /\ sent' = NoSignal

(***************************************************************************)
(* the signals                                                             *)
(***************************************************************************)

\* Signal(name, supports_defer), as the source builds its signals.
Signal(name, supports_defer) == [name |-> name, supports_defer |-> supports_defer]

\* Line 25.
agg_stats_changed == Signal("agg_stats_changed", FALSE)

\* stats.stats_changed, the signal of a crawler's stats collector.
stats_changed == "stats_changed"

\* Lines 26-28.
STAT_SIGNALS == [s \in {stats_changed} |-> agg_stats_changed]

\* Lines 31-47.
SCRAPY_SIGNAL_NAMES ==
    {"engine_started", "engine_stopped", "engine_paused", "engine_resumed",
     "item_scraped", "item_dropped", "spider_closed", "spider_closing",
     "spider_opened", "spider_idle", "spider_error", "request_scheduled",
     "request_dropped", "response_received", "response_downloaded"}

\* A table that declares every signal with supports_defer.
CrawlerProcessSignals_all_deferred == [name \in SCRAPY_SIGNAL_NAMES |-> Signal(name, TRUE)]

\* The signals of class CrawlerProcessSignals, lines 58-72.
CrawlerProcessSignals ==
    [name \in SCRAPY_SIGNAL_NAMES |->
        CASE name = "engine_started" -> Signal("engine_started", TRUE)
          [] name = "engine_stopped" -> Signal("engine_stopped", TRUE)
          [] name = "engine_paused" -> Signal("engine_paused", FALSE)
          [] name = "engine_resumed" -> Signal("engine_resumed", FALSE)
          [] name = "spider_opened" -> Signal("spider_opened", TRUE)
          [] name = "spider_idle" -> Signal("spider_idle", FALSE)
          [] name = "spider_closed" -> Signal("spider_closed", TRUE)
          [] name = "spider_closing" -> Signal("spider_closing", FALSE)
          [] name = "spider_error" -> Signal("spider_error", FALSE)
          [] name = "request_scheduled" -> Signal("request_scheduled", FALSE)
          [] name = "request_dropped" -> Signal("request_dropped", FALSE)
          [] name = "response_received" -> Signal("response_received", FALSE)
          [] name = "response_downloaded" -> Signal("response_downloaded", FALSE)
          [] name = "item_scraped" -> Signal("item_scraped", TRUE)
          [] name = "item_dropped" -> Signal("item_dropped", TRUE)]

\* The table CrawlerProcessSignals.signal reads, lines 74-77: the Scrapy
\* signal of a name is mapped to the CrawlerProcessSignals attribute of the
\* same name.
spider_to_cp(spider_signal) == CrawlerProcessSignals[spider_signal]

\* What sends a signal of crawler c: the crawler itself for the signals of
\* SCRAPY_SIGNAL_NAMES, the crawler's stats collector for stats_changed.
sender_of(c, signal) ==
    [kind |-> IF signal = stats_changed THEN "stats" ELSE "crawler",
     crawler |-> c]

\* The listeners other components connect to the signals of the process.
ExternalListeners == {"listener_1", "listener_2"}

\* The receivers of a process-wide signal: __init__ connects
\* on_spider_closed to spider_closed (line 127).
receivers(signal) ==
    ExternalListeners
        \cup (IF signal = CrawlerProcessSignals["spider_closed"]
              THEN {"on_spider_closed"} ELSE {})

\* A send that stops at the first receiver that raises and lets the
\* exception out.
send_uncaught(to, raising) ==
    [ran |-> IF to \cap raising = {} THEN to ELSE {},
     raised |-> to \cap raising # {}]

\* self.signals.send_catch_log and send_catch_log_deferred, lines 194-197:
\* every receiver is run, and the exception of a receiver is logged.
send_catch_log(to, raising) == [ran |-> to, raised |-> FALSE]

\* _resend_signal, lines 181-197, for the keyword arguments signal, sender
\* and the rest (payload), with the listeners in `raising` raising.
_resend_signal(kwargs, raising) ==
    LET stat == kwargs.signal \in DOMAIN STAT_SIGNALS
        signal == IF stat THEN STAT_SIGNALS[kwargs.signal]
                  ELSE spider_to_cp(kwargs.signal)
        crawler == IF stat
                   THEN [kind |-> "crawler", crawler |-> kwargs.sender.crawler]
                   ELSE kwargs.sender
        result == send_catch_log(receivers(signal), raising)
    IN  [signal |-> signal,
         crawler |-> crawler,
         payload |-> kwargs.payload,
         dispatch |-> IF signal.supports_defer
                      THEN "send_catch_log_deferred"
                      ELSE "send_catch_log",
         ran |-> result.ran,
         raised |-> result.raised]

\* The listeners that raise at a signal: none, or one of the two.
Raising == {{}, {"listener_1"}}

\* What a signal carries besides signal and sender.
Payloads == {"payload_1", "payload_2"}

\* What the process publishes when crawler c sends a signal: _resend_signal
\* is run once if crawl connected it to the crawler (lines 146-151).
republish(c, signal, payload, raising) ==
    IF c \in connected
    THEN <<_resend_signal([signal |-> signal, sender |-> sender_of(c, signal),
                           payload |-> payload], raising)>>
    ELSE <<>>

\* The record of a signal sent in a step.
signal_sent(c, signal, payload, raising) ==
    [signal |-> signal, sender |-> sender_of(c, signal), payload |-> payload,
     raising |-> raising, out |-> republish(c, signal, payload, raising)]

\* The engine, a component or the stats collector of crawler c sends a
\* signal other than spider_closed while the crawler runs; some listeners
\* of the process-wide signal raise.
send_signal(c, signal, payload, raising) ==
    /\ c \in crawlers
    /\ spider[c]
    /\ ~closed[c]
    /\ signal # "spider_closed"
    /\ sent' = signal_sent(c, signal, payload, raising)
    /\ UNCHANGED <<crawl_ids, pending, issued, crawlers, spider, crawling,
                   closing, reason, closed, _paused_jobs, _finished_jobs, last,
                   connected, closing_sent>>

\* The engine of crawler c sends spider_closed once the spider is closed;
\* on_spider_closed (lines 204-212) is among the receivers when the signal
\* is republished.
send_spider_closed(c, payload, raising) ==
    /\ c \in crawlers
    /\ spider[c]
    /\ closing[c]
    /\ ~closed[c]
    /\ Len(_finished_jobs) < MaxFinished
    /\ sent' = signal_sent(c, "spider_closed", payload, raising)
    /\ closed' = [closed EXCEPT ![c] = TRUE]
    /\ _finished_jobs' =
           IF \E k \in DOMAIN sent'.out : "on_spider_closed" \in sent'.out[k].ran
           THEN <<finished_record(c, reason[c])>> \o _finished_jobs
           ELSE _finished_jobs
    /\ UNCHANGED <<crawl_ids, pending, issued, crawlers, spider, crawling,
                   closing, reason, _paused_jobs, last, connected,
                   closing_sent>>

(***************************************************************************)
(* the job list                                                            *)
(***************************************************************************)

\* _get_crawler_status with the test of _paused_jobs ahead of the test of
\* the crawling flag.
_get_crawler_status_paused_first(c) ==
    IF ~spider[c] THEN "unknown"
    ELSE IF c \in _paused_jobs THEN "suspended"
    ELSE IF ~crawling[c] THEN "stopping"
    ELSE "crawling"

\* _get_crawler_status, lines 232-239.
_get_crawler_status(c) ==
    IF ~spider[c] THEN "unknown"
    ELSE IF ~crawling[c] THEN "stopping"
    ELSE IF c \in _paused_jobs THEN "suspended"
    ELSE "crawling"

RECURSIVE SetToSeq(_)
\* The elements of a set in the order a loop over the set meets them.
SetToSeq(S) ==
    IF S = {} THEN <<>>
    ELSE LET x == CHOOSE y \in S : TRUE
         IN  <<x>> \o SetToSeq(S \ {x})

\* get_jobs, lines 218-230.
get_jobs ==
    LET crs == SetToSeq({cr \in crawlers : spider[cr]})
    IN  [k \in 1..Len(crs) |->
            [id |-> crs[k], status |-> _get_crawler_status(crs[k])]]

\* The ids of the finished jobs, line 245.
finished_ids == {_finished_jobs[k].id : k \in DOMAIN _finished_jobs}

\* The active part without the filter on finished ids.
active_jobs_unfiltered == get_jobs

\* The active part of jobs, lines 246-247.
active_jobs == SelectSeq(get_jobs, LAMBDA job : job.id \notin finished_ids)

\* jobs with the finished jobs ahead of the active ones.
jobs_finished_first == _finished_jobs \o active_jobs

\* jobs, lines 241-249.
jobs == active_jobs \o _finished_jobs

(***************************************************************************)
(* Properties                                                              *)
(***************************************************************************)

\* The statuses the active part of jobs reports for id i: empty when the
\* id is not listed there.
SnapshotStatus(i) ==
    LET listed == active_jobs
    IN  {listed[k].status : k \in {n \in DOMAIN listed : listed[n].id = i}}

\* The entries of the active part of jobs for ids other than i.
OtherEntries(i) ==
    LET listed == active_jobs
    IN  {listed[k] : k \in {n \in DOMAIN listed : listed[n].id # i}}

\* The number of finished records with id i.
FinishedCount(i) ==
    Cardinality({k \in DOMAIN _finished_jobs : _finished_jobs[k].id = i})

\* C1: the job ids handed out by crawl are positive integers, strictly
\* increasing in the order they were handed out, so none is handed out
\* twice; this holds with several crawl calls in flight and after earlier
\* jobs have finished.
C1_IdsStrictlyIncreasing ==
    \A k \in DOMAIN issued :
        /\ issued[k] >= 1
        /\ \A l \in DOMAIN issued : k < l => issued[k] < issued[l]

\* A second id is handed out, and its crawl call is still in flight, after
\* the first job has been put in the finished list.
C1_Witness ==
    /\ Len(issued) >= 2
    /\ pending # {}
    /\ _finished_jobs # <<>>

\* C2: once spider_closed has fired for a job, the finished list holds
\* exactly one record with the job's id, however often the signal is
\* delivered.
C2_ExactlyOneFinishedRecord ==
    \A c \in connected : closed[c] => FinishedCount(c) = 1

\* C3: jobs never lists an id both in its active part and in its finished
\* part.
C3_NoIdInBothPartitions ==
    \A k \in 1..Len(active_jobs) : \A l \in 1..Len(_finished_jobs) :
        jobs[k].id # jobs[Len(active_jobs) + l].id

\* A crawler that is still registered, with a spider, already has a
\* finished record and is left out of the active part, while another job is
\* listed there.
C3_Witness ==
    /\ \E c \in crawlers : spider[c] /\ c \in finished_ids
    /\ Len(active_jobs) >= 1

\* The job API methods that take a job to act on.
JobCalls == {"stop_job", "pause_job", "resume_job"}

\* C4: pause_job(id) on an active crawling job makes jobs report it as
\* suspended; stop_job(id) on a job reported as suspended makes jobs report
\* it as stopping, with the id still in _paused_jobs.
C4_PauseThenStopReportsStopping ==
    [][\A i \in CallIds :
         /\ (/\ last'.op = "pause_job"
             /\ last'.id = i
             /\ i \in crawlers
             /\ SnapshotStatus(i) = {"crawling"}
             /\ pause_job(i))
                => SnapshotStatus(i)' = {"suspended"}
         /\ (/\ last'.op = "stop_job"
             /\ last'.id = i
             /\ i \in crawlers
             /\ i \in _paused_jobs
             /\ stop_job(i)
             /\ SnapshotStatus(i) = {"suspended"})
                => (SnapshotStatus(i)' = {"stopping"} /\ i \in _paused_jobs')
      ]_vars

\* C5: resume_job(id) on a registered job with a spider whose id is not in
\* _paused_jobs fails with the KeyError of set.remove (NotPaused), which is
\* not the KeyError of get_crawler (NotFound); the engine is not told to
\* unpause and the set is left as it was.
C5_ResumeNotPausedFails ==
    (/\ last.op = "resume_job"
     /\ last.id \in crawlers
     /\ spider[last.id]
     /\ last.id \notin last.pre)
        => /\ last.err = NotPaused
           /\ last.err # NotFound
           /\ last.engine = "none"
           /\ _paused_jobs = last.pre

\* resume_job has just failed with NotPaused on a job that jobs reports as
\* crawling.
C5_Witness ==
    /\ last.op = "resume_job"
    /\ last.err = NotPaused
    /\ SnapshotStatus(last.id) = {"crawling"}

\* C6: get_crawler called with an id that crawl has not handed out fails
\* with NotFound, whatever the registry holds.
C6_LookupUnknownIsNotFound ==
    (last.op = "get_crawler" /\ last.id >= crawl_ids) => last.err = NotFound

\* C7: stop_job, pause_job and resume_job called with an id of no crawler
\* in self.crawlers fail with NotFound and reach no engine.
C7_UnknownJobIsNotFound ==
    (last.op \in JobCalls /\ last.id \notin crawlers)
        => (last.err = NotFound /\ last.engine = "none")

\* C8: _paused_jobs holds only ids of crawlers in self.crawlers.
C8_PausedJobsAreActive ==
    _paused_jobs \subseteq crawlers

\* C9: after stop_job(id) on an active job, jobs lists the job in its
\* active part as stopping until spider_closed is delivered for it; from
\* then on the job is listed in the finished part only.
C9_StoppingUntilClosed ==
    /\ (/\ last.op = "stop_job"
        /\ last.id \in crawlers
        /\ spider[last.id]
        /\ ~closed[last.id])
           => SnapshotStatus(last.id) = {"stopping"}
    /\ \A c \in crawlers :
           (closing[c] /\ ~closed[c]) => SnapshotStatus(c) = {"stopping"}
    /\ \A c \in connected :
           closed[c] => (SnapshotStatus(c) = {} /\ c \in finished_ids)

\* C10: pause_job(id) on an active crawling job followed at once by
\* resume_job(id) leaves _paused_jobs as it was before the pause and the
\* job reported as crawling; neither call changes the status jobs reports
\* for any other job.
C10_PauseResumeRoundTrip ==
    [][\A i \in CallIds :
         /\ (/\ last'.op = "pause_job"
             /\ last'.id = i
             /\ i \in crawlers
             /\ SnapshotStatus(i) = {"crawling"}
             /\ pause_job(i))
                => OtherEntries(i)' = OtherEntries(i)
         /\ (/\ last.op = "pause_job"
             /\ last.id = i
             /\ i \notin last.pre
             /\ last'.op = "resume_job"
             /\ last'.id = i
             /\ SnapshotStatus(i) = {"suspended"}
             /\ resume_job(i))
                => /\ _paused_jobs' = last.pre
                   /\ SnapshotStatus(i)' = {"crawling"}
                   /\ OtherEntries(i)' = OtherEntries(i)
      ]_vars

\* resume_job has just undone a pause_job of a job that jobs reports as
\* crawling again, while jobs reports another job as well.
C10_Witness ==
    /\ last.op = "resume_job"
    /\ last.err = Ok
    /\ last.pre = _paused_jobs \cup {last.id}
    /\ SnapshotStatus(last.id) = {"crawling"}
    /\ \E j \in JobIds \ {last.id} : SnapshotStatus(j) # {}

\* The crawlers jobs has to list as active: registered, with a spider and
\* without a finished record.
ActiveIds == {c \in crawlers : spider[c] /\ c \notin finished_ids}

\* C11: jobs is the active entries, one for each registered crawler that
\* has a spider and no finished record, followed by all the finished
\* records in the order of _finished_jobs; no active entry comes after a
\* finished one.
C11_ActiveThenFinished ==
    LET n == Cardinality(ActiveIds)
    IN  /\ Len(jobs) = n + Len(_finished_jobs)
        /\ {jobs[k].id : k \in 1..n} = ActiveIds
        /\ \A k \in 1..n :
               jobs[k].status = _get_crawler_status(jobs[k].id)
        /\ \A l \in 1..Len(_finished_jobs) : jobs[n + l] = _finished_jobs[l]

\* jobs lists an active job and a finished record, while a closed crawler
\* that is still registered is left out of the active part.
C11_Witness ==
    /\ ActiveIds # {}
    /\ Len(_finished_jobs) >= 1
    /\ \E c \in crawlers : spider[c] /\ c \in finished_ids

\* The status the decision order of the spec gives: no spider, unknown;
\* else crawling flag clear, stopping; else id in the paused set,
\* suspended; else crawling.
StatusTable(hasSpider, isCrawling, isPaused) ==
    CASE ~hasSpider -> "unknown"
      [] hasSpider /\ ~isCrawling -> "stopping"
      [] hasSpider /\ isCrawling /\ isPaused -> "suspended"
      [] hasSpider /\ isCrawling /\ ~isPaused -> "crawling"

\* C12: the status of a job is decided by (spider exists, crawling flag, id
\* in _paused_jobs) alone, first match first: unknown, stopping, suspended,
\* crawling; and every active entry of jobs carries that status.
C12_StatusDecisionOrder ==
    /\ \A c \in JobIds :
           _get_crawler_status(c)
               = StatusTable(spider[c], crawling[c], c \in _paused_jobs)
    /\ \A k \in DOMAIN active_jobs :
           active_jobs[k].status
               = StatusTable(TRUE, crawling[active_jobs[k].id],
                             active_jobs[k].id \in _paused_jobs)

\* The tie-break happens: a job with a spider is both stopping and in
\* _paused_jobs, while another registered crawler has no spider yet.
C12_Witness ==
    /\ \E c \in crawlers : spider[c] /\ ~crawling[c] /\ c \in _paused_jobs
    /\ \E c \in crawlers : ~spider[c]

\* C14: the finished list only grows, at its head: a step either leaves it
\* as it is or puts one record in front of it; the records it held stay,
\* unaltered and in the same order, whatever crawl, pause_job, resume_job,
\* stop_job or close comes later.
C14_FinishedGrowsAtHead ==
    [][\/ _finished_jobs' = _finished_jobs
       \/ /\ Len(_finished_jobs') = Len(_finished_jobs) + 1
          /\ Tail(_finished_jobs') = _finished_jobs]_vars

\* The finished list holds the records of two jobs, the later one first,
\* and a call of the job API has just been made on top of it.
C14_Witness ==
    /\ Len(_finished_jobs) = 2
    /\ _finished_jobs[1].id # _finished_jobs[2].id
    /\ closed[_finished_jobs[1].id] /\ closed[_finished_jobs[2].id]
    /\ last.op \in JobCalls

\* C19: a stop_job, pause_job or resume_job that ends in an error leaves
\* _paused_jobs, self.crawlers and the finished list as they were before
\* the call: a failed pause adds no id, a failed resume removes none.
C19_FailedCallChangesNothing ==
    [][(last'.op \in JobCalls /\ last'.err # Ok)
           => /\ _paused_jobs' = _paused_jobs
              /\ crawlers' = crawlers
              /\ _finished_jobs' = _finished_jobs]_vars

\* C13: pause_job adds the id to _paused_jobs before the engine is told to
\* pause, and resume_job removes it before the engine is told to unpause:
\* a listener that receives engine_paused finds the id in _paused_jobs, and
\* a listener that receives engine_resumed does not find it there.
C13_SetChangedBeforeEngineSignal ==
    /\ last.engine = "pause" => \A paused_now \in last.heard : last.id \in paused_now
    /\ last.engine = "unpause" => \A paused_now \in last.heard : last.id \notin paused_now

\* pause_job has just paused the engine of a job that was not in
\* _paused_jobs, and the listeners of engine_paused were reached.
C13_Witness ==
    /\ last.op = "pause_job"
    /\ last.engine = "pause"
    /\ last.id \notin last.pre
    /\ last.heard # {}

\* C18: the engine of a job sends spider_closing at most once, with the
\* crawling flag cleared, and before spider_closed is sent for the job; a
\* request to close a spider that is already closing sends no further
\* spider_closing; the finished list gets the job's record when
\* spider_closed is sent, not when spider_closing is.
C18_ClosingOnceBeforeClosed ==
    \A c \in JobIds :
        /\ closing_sent[c] <= 1
        /\ closing_sent[c] = 1 => ~crawling[c]
        /\ closed[c] => closing_sent[c] = 1
        /\ c \in finished_ids => closed[c]

\* stop_job has just been called on a job whose spider is closing: the
\* engine has sent spider_closing once, spider_closed has not been sent and
\* the finished list has no record of the job.
C18_Witness ==
    /\ last.op = "stop_job"
    /\ last.err = Ok
    /\ closing[last.id]
    /\ closing_sent[last.id] = 1
    /\ ~closed[last.id]
    /\ last.id \notin finished_ids

\* C20: a job whose spider exists is listed by jobs from then on, in the
\* active part or in the finished part; once its crawler has left
\* self.crawlers the finished list has its record.
C20_StartedJobStaysListed ==
    \A c \in JobIds :
        spider[c] => c \in {jobs[k].id : k \in DOMAIN jobs}

\* The process-wide signal of the same kind as a crawler's signal.
CanonicalName(signal) ==
    IF signal = stats_changed THEN "agg_stats_changed" ELSE signal

\* C15: a signal of SCRAPY_SIGNAL_NAMES or a stats_changed signal sent for
\* a job is republished exactly once as the process-wide signal of the
\* same kind, with the job's crawler in place of the sender (the crawler
\* that owns the stats collector for stats_changed) and the rest of the
\* payload as it was.
C15_RepublishedOnce ==
    sent.signal # "none" =>
        /\ Len(sent.out) = 1
        /\ sent.out[1].signal.name = CanonicalName(sent.signal)
        /\ sent.out[1].crawler = [kind |-> "crawler", crawler |-> sent.sender.crawler]
        /\ sent.out[1].payload = sent.payload

\* The signals the spec declares awaitable.
Awaitable ==
    {"engine_started", "engine_stopped", "spider_opened", "spider_closed",
     "item_scraped", "item_dropped"}

\* C16: a signal is republished with send_catch_log_deferred exactly when
\* it is engine_started, engine_stopped, spider_opened, spider_closed,
\* item_scraped or item_dropped, and with send_catch_log otherwise,
\* agg_stats_changed included.
C16_AwaitableDispatch ==
    \A k \in DOMAIN sent.out :
        sent.out[k].dispatch =
            IF sent.out[k].signal.name \in Awaitable
            THEN "send_catch_log_deferred"
            ELSE "send_catch_log"

\* A stats_changed signal has just been republished with send_catch_log.
C16_Witness ==
    /\ sent.signal = stats_changed
    /\ Len(sent.out) = 1
    /\ sent.out[1].signal = agg_stats_changed
    /\ sent.out[1].dispatch = "send_catch_log"

\* The finished records of the jobs other than c, in their order.
OtherRecords(c) == SelectSeq(_finished_jobs, LAMBDA job : job.id # c)

Next ==
    \/ crawl_next_id
    \/ \E c \in JobIds : crawl_register(c)
    \/ \E c \in JobIds : create_spider(c)
    \/ \E c \in JobIds : engine_close_spider(c)
    \/ \E c \in JobIds : on_spider_closed(c)
    \/ \E c \in JobIds : spider_closed_unheard(c)
    \/ \E c \in JobIds : crawl_done(c)
    \/ \E i \in CallIds : lookup(i)
    \/ \E i \in CallIds : stop_job(i)
    \/ \E i \in CallIds : pause_job(i)
    \/ \E i \in CallIds : resume_job(i)

Spec == Init /\ [][Next]_vars

\* The crawlers and their signals, without the job API.
NextSignals ==
    \/ crawl_next_id
    \/ \E c \in JobIds : crawl_register(c)
    \/ \E c \in JobIds : create_spider(c)
    \/ \E c \in JobIds : engine_close_spider(c)
    \/ \E c \in JobIds, signal \in SCRAPY_SIGNAL_NAMES \cup {stats_changed},
          payload \in Payloads, raising \in Raising :
          send_signal(c, signal, payload, raising)
    \/ \E c \in JobIds, payload \in Payloads, raising \in Raising :
          send_spider_closed(c, payload, raising)
    \/ \E c \in JobIds : crawl_done(c)

SignalSpec == Init /\ [][NextSignals]_vars

====
